---- MODULE Spec2Model ----
(***************************************************************************)
(* Model of the pngtojpg converter: the image transcoding engine          *)
(* (src/utils/imageProcessor.js, processImage) together with the callers  *)
(* that start a conversion (App and ImagePreview) and the crop producer   *)
(* (CropSelector.handleConfirmCrop).                                      *)
(*                                                                         *)
(* Real-valued quantities of the code (aspect ratios, normalised crop     *)
(* rectangles, compression ratios) are exact fractions <<n, d>>, d > 0.   *)
(* A source image is a small grid of pixels of which only the alpha       *)
(* channel is kept; the composed canvas is represented by the set of      *)
(* alpha values that end up on it.                                        *)
(***************************************************************************)
EXTENDS Integers, Sequences, FiniteSets, TLC

(***************************************************************************)
(* Bounds of the model (not program constants).                           *)
(***************************************************************************)
\* an encoder may return a blob up to MaxShrink bytes smaller than the file
MaxShrink == 2
\* ... and up to MaxGrow bytes larger than the file
MaxGrow == 1

(***************************************************************************)
(* Optional values: null is the empty tuple, a value v is <<v>>.           *)
(***************************************************************************)
Null == <<>>
Some(v) == <<v>>
IsNull(o) == o = <<>>
Val(o) == o[1]

(***************************************************************************)
(* Exact fractions.                                                        *)
(***************************************************************************)
Abs(n) == IF n < 0 THEN -n ELSE n

RECURSIVE GCD(_, _)
GCD(a, b) == IF b = 0 THEN a ELSE GCD(b, a % b)

FNorm(n, d) ==
  LET s == IF d < 0 THEN -1 ELSE 1
      g == GCD(Abs(n), Abs(d))
  IN  <<(s * n) \div g, (s * d) \div g>>

FInt(n) == <<n, 1>>
FAdd(a, b) == FNorm(a[1] * b[2] + b[1] * a[2], a[2] * b[2])
FSub(a, b) == FNorm(a[1] * b[2] - b[1] * a[2], a[2] * b[2])
FMul(a, b) == FNorm(a[1] * b[1], a[2] * b[2])
FDiv(a, b) == FNorm(a[1] * b[2], a[2] * b[1])
FLt(a, b) == a[1] * b[2] < b[1] * a[2]
FLe(a, b) == a[1] * b[2] <= b[1] * a[2]
FMin(a, b) == IF FLt(b, a) THEN b ELSE a
FMax(a, b) == IF FLt(a, b) THEN b ELSE a

\* Math.round(n / d) for d > 0: the nearest integer, halves rounded up
MathRound(n, d) == (2 * n + d) \div (2 * d)

(***************************************************************************)
(* Source files.  A file has a byte size and decodes to an image of        *)
(* width x height pixels; pattern names the alpha channel of the image.    *)
(***************************************************************************)
KB == 1024

\* file sizes on both sides of the thresholds 100 KB, 1000 KB and 2000 KB
FileSizes == {100 * KB - 1, 100 * KB, 1000 * KB, 2000 * KB, 2000 * KB + 1}

\* 16x9 is exactly 16:9; 4x1 is wider, 2x2 is taller than 16:9
ImageDims == {<<16, 9>>, <<4, 1>>, <<2, 2>>}

\* opaque: every alpha is 255; corner: pixel (0,0) has alpha 254;
\* clear: every alpha is 0
AlphaPatterns == {"opaque", "corner", "clear"}

Images == {[width |-> d[1], height |-> d[2], pattern |-> p] :
             d \in ImageDims, p \in AlphaPatterns}

Files == {[size |-> s, img |-> i] : s \in FileSizes, i \in Images}

alphaAt(img, x, y) ==
  CASE img.pattern = "opaque" -> 255
    [] img.pattern = "clear"  -> 0
    [] img.pattern = "corner" -> IF x = 0 /\ y = 0 THEN 254 ELSE 255

Pixels(img) == (0 .. img.width - 1) \X (0 .. img.height - 1)

\* the source image has at least one pixel with alpha < 255
SourceHasAlpha(img) == \E p \in Pixels(img) : alphaAt(img, p[1], p[2]) < 255

\* getImageInfo: what the decoded image reports about the file
getImageInfo(file) ==
  [width |-> file.img.width, height |-> file.img.height,
   size |-> file.size, sizeKB |-> MathRound(file.size, KB)]

(***************************************************************************)
(* CropSelector: the crop rectangle handed over by Confirm Crop.           *)
(***************************************************************************)
AspectRatioTags == {"16:9", "9:16", "1:1"}

aspectRatios ==
  [t \in AspectRatioTags |->
     CASE t = "16:9" -> <<16, 9>>
       [] t = "9:16" -> <<9, 16>>
       [] t = "1:1"  -> <<1, 1>>]

\* the portrait tag keeps the landscape dimensions
outputDimensions_Mut ==
  [t \in AspectRatioTags |->
     CASE t = "16:9" -> [width |-> 1920, height |-> 1080]
       [] t = "9:16" -> [width |-> 1920, height |-> 1080]
       [] t = "1:1"  -> [width |-> 1080, height |-> 1080]]

outputDimensions ==
  [t \in AspectRatioTags |->
     CASE t = "16:9" -> [width |-> 1920, height |-> 1080]
       [] t = "9:16" -> [width |-> 1080, height |-> 1920]
       [] t = "1:1"  -> [width |-> 1080, height |-> 1080]]

\* zoom levels of the selector (1x .. 3x) used by the model
ZoomLevels == {<<1, 1>>, <<3, 2>>, <<3, 1>>}

\* cursor positions, normalised to the image, used by the model
Coords == {<<0, 1>>, <<1, 2>>, <<1, 1>>}

cropArea(info, aspectRatio, zoomLevel) ==
  LET imgWidth == FInt(info.width)
      imgHeight == FInt(info.height)
      targetAspectRatio == aspectRatios[aspectRatio]
      imgAspectRatio == FDiv(imgWidth, imgHeight)
      wide == FLt(targetAspectRatio, imgAspectRatio)
      cropHeight0 == IF wide THEN imgHeight
                     ELSE FDiv(imgWidth, targetAspectRatio)
      cropWidth0 == IF wide THEN FMul(imgHeight, targetAspectRatio)
                    ELSE imgWidth
  IN  [cropWidth |-> FMin(FDiv(cropWidth0, zoomLevel), imgWidth),
       cropHeight |-> FMin(FDiv(cropHeight0, zoomLevel), imgHeight)]

\* the position is bounded below by 0 only, not above by maxCropX, maxCropY
cropPositionData_Mut(info, area, cropPosition) ==
  LET imgWidth == FInt(info.width)
      imgHeight == FInt(info.height)
      halfW == FDiv(FDiv(area.cropWidth, imgWidth), FInt(2))
      halfH == FDiv(FDiv(area.cropHeight, imgHeight), FInt(2))
  IN  [boundedCropX |->
         FMax(FInt(0), FSub(cropPosition.x, halfW)),
       boundedCropY |->
         FMax(FInt(0), FSub(cropPosition.y, halfH)),
       cropWidth |-> area.cropWidth,
       cropHeight |-> area.cropHeight]

cropPositionData(info, area, cropPosition) ==
  LET imgWidth == FInt(info.width)
      imgHeight == FInt(info.height)
      maxCropX == FDiv(FSub(imgWidth, area.cropWidth), imgWidth)
      maxCropY == FDiv(FSub(imgHeight, area.cropHeight), imgHeight)
      halfW == FDiv(FDiv(area.cropWidth, imgWidth), FInt(2))
      halfH == FDiv(FDiv(area.cropHeight, imgHeight), FInt(2))
  IN  [boundedCropX |->
         FMax(FInt(0), FMin(maxCropX, FSub(cropPosition.x, halfW))),
       boundedCropY |->
         FMax(FInt(0), FMin(maxCropY, FSub(cropPosition.y, halfH))),
       cropWidth |-> area.cropWidth,
       cropHeight |-> area.cropHeight]

handleConfirmCrop(info, aspectRatio, zoomLevel, cropPosition) ==
  LET data == cropPositionData(info, cropArea(info, aspectRatio, zoomLevel),
                               cropPosition)
  IN  [x |-> data.boundedCropX,
       y |-> data.boundedCropY,
       width |-> FDiv(data.cropWidth, FInt(info.width)),
       height |-> FDiv(data.cropHeight, FInt(info.height)),
       aspectRatio |-> aspectRatio,
       outputDimensions |-> outputDimensions[aspectRatio]]

\* every crop Confirm Crop can hand over for the image of a file
ConfirmedCrops(file) ==
  {handleConfirmCrop(getImageInfo(file), t, z, [x |-> cx, y |-> cy]) :
     t \in AspectRatioTags, z \in ZoomLevels, cx \in Coords, cy \in Coords}

\* App.handleFileSelect: the crop selector is shown unless the image is 16:9
needsCropSelector(info) ==
  LET diff == FSub(FDiv(FInt(info.width), FInt(info.height)), <<16, 9>>)
      absDiff == IF diff[1] < 0 THEN <<-diff[1], diff[2]>> ELSE diff
  IN  FLt(<<1, 100>>, absDiff)

(***************************************************************************)
(* processImage: geometry (img.onload, first part).                        *)
(***************************************************************************)
defaultTargetWidth == 1920
defaultTargetHeight == 1080

\* the default width and height are swapped
targetDimensions_Mut(cropParams) ==
  IF ~IsNull(cropParams)
  THEN [width |-> Val(cropParams).outputDimensions.width,
        height |-> Val(cropParams).outputDimensions.height]
  ELSE [width |-> defaultTargetHeight, height |-> defaultTargetWidth]

targetDimensions(cropParams) ==
  IF ~IsNull(cropParams)
  THEN [width |-> Val(cropParams).outputDimensions.width,
        height |-> Val(cropParams).outputDimensions.height]
  ELSE [width |-> defaultTargetWidth, height |-> defaultTargetHeight]

\* the crop's width is scaled by the image height and its height by the
\* image width
placement_MutAxes(img, cropParams) ==
  LET target == targetDimensions(cropParams)
      targetWidth == FInt(target.width)
      targetHeight == FInt(target.height)
      imgWidth == FInt(img.width)
      imgHeight == FInt(img.height)
      imgAspectRatio == FDiv(imgWidth, imgHeight)
      targetAspectRatio == FDiv(targetWidth, targetHeight)
  IN  IF ~IsNull(cropParams)
      THEN [sourceX |-> FMul(Val(cropParams).x, imgWidth),
            sourceY |-> FMul(Val(cropParams).y, imgHeight),
            sourceWidth |-> FMul(Val(cropParams).width, imgHeight),
            sourceHeight |-> FMul(Val(cropParams).height, imgWidth),
            drawWidth |-> targetWidth, drawHeight |-> targetHeight,
            offsetX |-> FInt(0), offsetY |-> FInt(0)]
      ELSE IF FLt(targetAspectRatio, imgAspectRatio)
      THEN LET drawHeight == targetHeight
               drawWidth == FMul(drawHeight, imgAspectRatio)
           IN  [sourceX |-> FInt(0), sourceY |-> FInt(0),
                sourceWidth |-> imgWidth, sourceHeight |-> imgHeight,
                drawWidth |-> drawWidth, drawHeight |-> drawHeight,
                offsetX |-> FDiv(FSub(targetWidth, drawWidth), FInt(2)),
                offsetY |-> FInt(0)]
      ELSE LET drawWidth == targetWidth
               drawHeight == FDiv(drawWidth, imgAspectRatio)
           IN  [sourceX |-> FInt(0), sourceY |-> FInt(0),
                sourceWidth |-> imgWidth, sourceHeight |-> imgHeight,
                drawWidth |-> drawWidth, drawHeight |-> drawHeight,
                offsetX |-> FInt(0),
                offsetY |-> FDiv(FSub(targetHeight, drawHeight), FInt(2))]

\* without a crop the image is scaled to fit inside the canvas: the test
\* of the two aspect ratios is the other way round
placement_MutFit(img, cropParams) ==
  LET target == targetDimensions(cropParams)
      targetWidth == FInt(target.width)
      targetHeight == FInt(target.height)
      imgWidth == FInt(img.width)
      imgHeight == FInt(img.height)
      imgAspectRatio == FDiv(imgWidth, imgHeight)
      targetAspectRatio == FDiv(targetWidth, targetHeight)
  IN  IF ~IsNull(cropParams)
      THEN [sourceX |-> FMul(Val(cropParams).x, imgWidth),
            sourceY |-> FMul(Val(cropParams).y, imgHeight),
            sourceWidth |-> FMul(Val(cropParams).width, imgWidth),
            sourceHeight |-> FMul(Val(cropParams).height, imgHeight),
            drawWidth |-> targetWidth, drawHeight |-> targetHeight,
            offsetX |-> FInt(0), offsetY |-> FInt(0)]
      ELSE IF FLt(imgAspectRatio, targetAspectRatio)
      THEN LET drawHeight == targetHeight
               drawWidth == FMul(drawHeight, imgAspectRatio)
           IN  [sourceX |-> FInt(0), sourceY |-> FInt(0),
                sourceWidth |-> imgWidth, sourceHeight |-> imgHeight,
                drawWidth |-> drawWidth, drawHeight |-> drawHeight,
                offsetX |-> FDiv(FSub(targetWidth, drawWidth), FInt(2)),
                offsetY |-> FInt(0)]
      ELSE LET drawWidth == targetWidth
               drawHeight == FDiv(drawWidth, imgAspectRatio)
           IN  [sourceX |-> FInt(0), sourceY |-> FInt(0),
                sourceWidth |-> imgWidth, sourceHeight |-> imgHeight,
                drawWidth |-> drawWidth, drawHeight |-> drawHeight,
                offsetX |-> FInt(0),
                offsetY |-> FDiv(FSub(targetHeight, drawHeight), FInt(2))]

\* the source rectangle and the destination rectangle handed to drawImage
placement(img, cropParams) ==
  LET target == targetDimensions(cropParams)
      targetWidth == FInt(target.width)
      targetHeight == FInt(target.height)
      imgWidth == FInt(img.width)
      imgHeight == FInt(img.height)
      imgAspectRatio == FDiv(imgWidth, imgHeight)
      targetAspectRatio == FDiv(targetWidth, targetHeight)
  IN  IF ~IsNull(cropParams)
      THEN [sourceX |-> FMul(Val(cropParams).x, imgWidth),
            sourceY |-> FMul(Val(cropParams).y, imgHeight),
            sourceWidth |-> FMul(Val(cropParams).width, imgWidth),
            sourceHeight |-> FMul(Val(cropParams).height, imgHeight),
            drawWidth |-> targetWidth, drawHeight |-> targetHeight,
            offsetX |-> FInt(0), offsetY |-> FInt(0)]
      ELSE IF FLt(targetAspectRatio, imgAspectRatio)
      THEN LET drawHeight == targetHeight
               drawWidth == FMul(drawHeight, imgAspectRatio)
           IN  [sourceX |-> FInt(0), sourceY |-> FInt(0),
                sourceWidth |-> imgWidth, sourceHeight |-> imgHeight,
                drawWidth |-> drawWidth, drawHeight |-> drawHeight,
                offsetX |-> FDiv(FSub(targetWidth, drawWidth), FInt(2)),
                offsetY |-> FInt(0)]
      ELSE LET drawWidth == targetWidth
               drawHeight == FDiv(drawWidth, imgAspectRatio)
           IN  [sourceX |-> FInt(0), sourceY |-> FInt(0),
                sourceWidth |-> imgWidth, sourceHeight |-> imgHeight,
                drawWidth |-> drawWidth, drawHeight |-> drawHeight,
                offsetX |-> FInt(0),
                offsetY |-> FDiv(FSub(targetHeight, drawHeight), FInt(2))]

(***************************************************************************)
(* processImage: composition (clearRect + drawImage).  A source pixel      *)
(* (px, py) occupies [px, px+1) x [py, py+1) of the image; drawImage maps  *)
(* the source rectangle linearly onto the destination rectangle, and what  *)
(* falls outside the canvas is clipped.                                    *)
(***************************************************************************)
\* the interval [lo, lo + len) of the destination that source interval
\* [p, p + 1) is drawn to
destLo(p, srcLo, srcLen, dstLo, dstLen) ==
  FAdd(dstLo, FDiv(FMul(FSub(FInt(p), srcLo), dstLen), srcLen))

\* the source pixel p (on one axis, of an image of size n on that axis) is
\* drawn on a canvas of size t on that axis
axisVisible(p, n, srcLo, srcLen, dstLo, dstLen, t) ==
  /\ FLt(FInt(0), srcLen)
  /\ FLt(srcLo, FInt(p + 1))
  /\ FLt(FInt(p), FAdd(srcLo, srcLen))
  /\ FLt(FInt(0), destLo(p + 1, srcLo, srcLen, dstLo, dstLen))
  /\ FLt(destLo(p, srcLo, srcLen, dstLo, dstLen), FInt(t))

\* the part of the source rectangle that lies in the image is drawn over
\* the whole canvas on this axis
axisCovered(n, srcLo, srcLen, dstLo, dstLen, t) ==
  /\ FLt(FInt(0), srcLen)
  /\ LET lo == FMax(srcLo, FInt(0))
         hi == FMin(FAdd(srcLo, srcLen), FInt(n))
         dLo == FAdd(dstLo, FDiv(FMul(FSub(lo, srcLo), dstLen), srcLen))
         dHi == FAdd(dstLo, FDiv(FMul(FSub(hi, srcLo), dstLen), srcLen))
     IN  FLe(dLo, FInt(0)) /\ FLe(FInt(t), dHi)

\* the rectangle of the source that drawImage(img, offsetX, offsetY,
\* drawWidth, drawHeight) maps onto the canvas [0, targetWidth) x
\* [0, targetHeight)
visibleSource(img) ==
  LET g == placement(img, Null)
      target == targetDimensions(Null)
  IN  [x |-> FDiv(FMul(FSub(FInt(0), g.offsetX), g.sourceWidth), g.drawWidth),
       y |-> FDiv(FMul(FSub(FInt(0), g.offsetY), g.sourceHeight), g.drawHeight),
       width |-> FDiv(FMul(FInt(target.width), g.sourceWidth), g.drawWidth),
       height |-> FDiv(FMul(FInt(target.height), g.sourceHeight),
                       g.drawHeight)]

visiblePixels(img, cropParams) ==
  LET g == placement(img, cropParams)
      target == targetDimensions(cropParams)
  IN  {p \in Pixels(img) :
         /\ axisVisible(p[1], img.width, g.sourceX, g.sourceWidth,
                        g.offsetX, g.drawWidth, target.width)
         /\ axisVisible(p[2], img.height, g.sourceY, g.sourceHeight,
                        g.offsetY, g.drawHeight, target.height)}

canvasCovered(img, cropParams) ==
  LET g == placement(img, cropParams)
      target == targetDimensions(cropParams)
  IN  /\ axisCovered(img.width, g.sourceX, g.sourceWidth,
                     g.offsetX, g.drawWidth, target.width)
      /\ axisCovered(img.height, g.sourceY, g.sourceHeight,
                     g.offsetY, g.drawHeight, target.height)

\* the alpha values found on the composed canvas: cleared (alpha 0) where
\* nothing was drawn, the source's alpha elsewhere
canvasAlphas(img, cropParams) ==
  {alphaAt(img, p[1], p[2]) : p \in visiblePixels(img, cropParams)}
    \cup (IF canvasCovered(img, cropParams) THEN {} ELSE {0})

\* the scan looks for fully transparent pixels only
hasTransparency_Mut(alphas) == \E a \in alphas : a = 0

hasTransparency(alphas) == \E a \in alphas : a < 255

(***************************************************************************)
(* processImage: encoding.  A blob is what one toBlob call delivered: its  *)
(* mime type, the quality it was asked for (Null for PNG), its size in     *)
(* bytes and the ordinal of the toBlob call within the conversion.         *)
(***************************************************************************)
\* an encoder is free to return any size; the model takes sizes around the
\* size of the original file, where the decisions of the search are made,
\* and a size one hundredth larger (a compression ratio of -1%)
BlobSizes(file) ==
  {file.size + d : d \in (0 - MaxShrink) .. MaxGrow}
    \cup {file.size + file.size \div 100}

Blob(type, quality, size, id) ==
  [type |-> type, quality |-> quality, size |-> size, id |-> id]

originalSizeKB(file) == <<file.size, KB>>

maxQuality == 95

\* >= instead of > at the two thresholds
minQuality_Mut(file) ==
  IF FLe(FInt(2000), originalSizeKB(file)) THEN 20
  ELSE IF FLe(FInt(1000), originalSizeKB(file)) THEN 25
  ELSE 30

minQuality(file) ==
  IF FLt(FInt(2000), originalSizeKB(file)) THEN 20
  ELSE IF FLt(FInt(1000), originalSizeKB(file)) THEN 25
  ELSE 30

startQuality(file) ==
  IF FLt(FInt(2000), originalSizeKB(file)) THEN 70
  ELSE IF FLt(FInt(1000), originalSizeKB(file)) THEN 75
  ELSE 85

\* the second step of the ladder is the size-dependent startQuality
qualityLevels_Mut(file) ==
  <<maxQuality, startQuality(file), 75, 65, 55, 45, 35, minQuality(file)>>

qualityLevels(file) ==
  <<maxQuality, 85, 75, 65, 55, 45, 35, minQuality(file)>>

\* (originalSizeKB - sizeKB) / originalSizeKB
compressionRatio(file, blob) ==
  FDiv(FSub(originalSizeKB(file), <<blob.size, KB>>), originalSizeKB(file))

\* >= instead of >: a later candidate of the same size replaces the best
betterCandidate_Mut(file, blob, best) ==
  /\ FLt(<<blob.size, KB>>, originalSizeKB(file))
  /\ FLe(best, compressionRatio(file, blob))

\* the candidate replaces the best one found so far
betterCandidate(file, blob, best) ==
  /\ FLt(<<blob.size, KB>>, originalSizeKB(file))
  /\ FLt(best, compressionRatio(file, blob))

\* the quality-98 attempt is made for every file below 100 KB
tryHighQuality_Mut(file, best) ==
  FLt(originalSizeKB(file), FInt(100))

\* the quality-98 attempt is made for the selected blob
tryHighQuality(file, best) ==
  /\ FLt(originalSizeKB(file), FInt(100))
  /\ best.size > file.size

highQuality == 98

\* < instead of <=
acceptHighQuality_Mut(file, blob) == blob.size < file.size

acceptHighQuality(file, blob) == blob.size <= file.size

\* the requested quality is not looked at: every opaque image is searched
encodePath_Mut(imageHasTransparency, targetQuality) ==
  IF imageHasTransparency THEN "png" ELSE "ladder"

\* which encode follows the transparency scan
encodePath(imageHasTransparency, targetQuality) ==
  IF imageHasTransparency THEN "png"
  ELSE IF ~IsNull(targetQuality) THEN "explicit"
  ELSE "ladder"

resultAspectRatio(cropParams) ==
  IF ~IsNull(cropParams) THEN Val(cropParams).aspectRatio ELSE "16:9"

\* the PNG result reports the JPEG quality cap instead of 100
pngResult_Mut(blob, cropParams) ==
  [blob |-> blob,
   size |-> blob.size,
   sizeKB |-> MathRound(blob.size, KB),
   quality |-> maxQuality,
   dimensions |-> targetDimensions(cropParams),
   aspectRatio |-> resultAspectRatio(cropParams),
   format |-> "PNG",
   preservedTransparency |-> TRUE]

pngResult(blob, cropParams) ==
  [blob |-> blob,
   size |-> blob.size,
   sizeKB |-> MathRound(blob.size, KB),
   quality |-> 100,
   dimensions |-> targetDimensions(cropParams),
   aspectRatio |-> resultAspectRatio(cropParams),
   format |-> "PNG",
   preservedTransparency |-> TRUE]

jpegResult(file, blob, quality, cropParams) ==
  [blob |-> blob,
   size |-> blob.size,
   sizeKB |-> MathRound(blob.size, KB),
   quality |-> quality,
   dimensions |-> targetDimensions(cropParams),
   aspectRatio |-> resultAspectRatio(cropParams),
   format |-> "JPEG",
   preservedTransparency |-> FALSE,
   originalSizeKB |-> MathRound(file.size, KB),
   compressionRatio |-> MathRound(100 * (file.size - blob.size), file.size)]

(***************************************************************************)
(* The callers' arguments.                                                 *)
(***************************************************************************)
Formats == {"JPEG", "PNG", "WEBP"}
QualityOptions == {"auto", "high", "medium", "low", "custom"}

\* the range of the custom quality slider and its initial value
sliderMin == 10
sliderMax == 90
initialCustomQuality == 75
CustomQualities == {sliderMin, initialCustomQuality, sliderMax}

\* App.processImageWithCrop passes this as targetQuality
appTargetQuality == 500

\* ImagePreview: the targetQuality of a quality option
targetQualityOf(option, customQuality) ==
  CASE option = "high"   -> Some(90)
    [] option = "medium" -> Some(75)
    [] option = "low"    -> Some(50)
    [] option = "custom" -> Some(customQuality)
    [] OTHER             -> Null

(***************************************************************************)
(* State of one conversion.                                                *)
(*   pc       where the conversion is: "idle" (none), "loading" (img.src   *)
(*            set), "png" / "explicit" / "ladder" / "fallback" / "high"    *)
(*            (the toBlob call of that stage is in flight), "resolved",    *)
(*            "rejected", "hung" (the promise can no longer be settled)    *)
(*   req      the call: caller, file, targetQuality, cropParams and the    *)
(*            output format the caller asked for                           *)
(*   canvas   the alpha values on the composed canvas and the result of    *)
(*            the scan (set by img.onload)                                 *)
(*   encodes  the toBlob calls started so far: <<type, quality>>           *)
(*   search   findOptimalCompression's locals: position in the ladder,     *)
(*            bestBlob, bestQuality, bestCompressionRatio, highQualityBlob *)
(*   result   the value the promise resolved with                          *)
(*   ladderMin  history: the first blob of minimum size among the ladder   *)
(*            blobs delivered so far that are strictly smaller than the    *)
(*            original file                                                *)
(*   log      history: the steps of the call in the order the code took    *)
(*            them (image event, canvas operations, toBlob calls, a null   *)
(*            blob)                                                        *)
(* pc is also "info" while getImageInfo's image loads and "crop" while the *)
(* crop selector is shown.                                                 *)
(***************************************************************************)
VARIABLES pc, req, canvas, encodes, search, result, ladderMin, log

(***************************************************************************)
(* State around the conversion.                                            *)
(*   encoder   Null when every toBlob call is free to deliver any size, or *)
(*             the function from quality to size of a deterministic        *)
(*             encoder                                                     *)
(*   selector  the state of the mounted CropSelector (aspectRatio,         *)
(*             zoomLevel, cropPosition, isDragging) and the last event it  *)
(*             handled                                                     *)
(*   app       the state of App (selectedFile, originalInfo,               *)
(*             showCropSelector, cropParams, processedResult,              *)
(*             isProcessing, error)                                        *)
(*   preview   the state of the mounted ImagePreview (selectedQuality,     *)
(*             selectedFormat, customQuality, isProcessing)                *)
(*   inflight  the calls of getImageInfo and processImage whose promise    *)
(*             is pending, in the order they were started                  *)
(*   started   the number of processImage calls started so far             *)
(*   download  the file handed to the browser by the last Download click   *)
(***************************************************************************)
VARIABLES encoder, selector, app, preview, inflight, started, download

others == <<encoder, selector, app, preview, inflight, started, download>>

vars == <<pc, req, canvas, encodes, search, result, ladderMin, log, others>>

NoFile == [size |-> 0, img |-> [width |-> 0, height |-> 0, pattern |-> "opaque"]]

NoReq ==
  [caller |-> "none", file |-> NoFile, targetQuality |-> Null,
   cropParams |-> Null, outputFormat |-> "JPEG"]

NoCanvas == [alphas |-> {}, imageHasTransparency |-> FALSE]

NoSearch ==
  [i |-> 0, bestBlob |-> Null, bestQuality |-> 0,
   bestCompressionRatio |-> FInt(0), highQualityBlob |-> Null]

\* CropSelector's useState initial values
InitialSelector ==
  [aspectRatio |-> "16:9", zoomLevel |-> <<1, 1>>,
   cropPosition |-> [x |-> <<1, 2>>, y |-> <<1, 2>>],
   isDragging |-> FALSE, event |-> "none"]

\* App's useState initial values
InitialApp ==
  [selectedFile |-> Null, originalInfo |-> Null, showCropSelector |-> FALSE,
   cropParams |-> Null, processedResult |-> Null, isProcessing |-> FALSE,
   error |-> Null]

\* ImagePreview's useState initial values; reprocessed records that this
\* instance has started a conversion
InitialPreview ==
  [selectedQuality |-> "auto", selectedFormat |-> "JPEG",
   customQuality |-> initialCustomQuality, isProcessing |-> FALSE,
   reprocessed |-> FALSE]

\* nothing outside the conversion has happened
InitOthers ==
  /\ encoder = Null
  /\ selector = InitialSelector
  /\ app = InitialApp
  /\ preview = InitialPreview
  /\ inflight = <<>>
  /\ started = 0
  /\ download = Null

Init ==
  /\ InitOthers
  /\ pc = "idle"
  /\ req = NoReq
  /\ canvas = NoCanvas
  /\ encodes = <<>>
  /\ search = NoSearch
  /\ result = Null
  /\ ladderMin = Null
  /\ log = <<>>

\* processImage(file, targetQuality, cropParams[, outputFormat]) up to
\* img.src = ...: a fourth argument is accepted and not looked at
processImage(caller, file, targetQuality, cropParams, outputFormat) ==
  /\ pc' = "loading"
  /\ req' = [caller |-> caller, file |-> file, targetQuality |-> targetQuality,
             cropParams |-> cropParams, outputFormat |-> outputFormat]
  /\ canvas' = NoCanvas
  /\ encodes' = <<>>
  /\ search' = NoSearch
  /\ result' = Null
  /\ ladderMin' = Null
  /\ log' = <<>>

(***************************************************************************)
(* App: the initial conversion.                                            *)
(***************************************************************************)
\* handleFileSelect up to the await: getImageInfo(file) sets img.src
HandleFileSelect ==
  /\ pc = "idle"
  /\ \E file \in Files :
       req' = [NoReq EXCEPT !.caller = "handleFileSelect", !.file = file]
  /\ pc' = "info"
  /\ UNCHANGED <<canvas, encodes, search, result, ladderMin, log>>
  /\ UNCHANGED others

\* getImageInfo's img.onerror rejects; handleFileSelect catches the error
GetImageInfoOnError ==
  /\ pc = "info"
  /\ pc' = "rejected"
  /\ log' = <<"onerror">>
  /\ UNCHANGED <<req, canvas, encodes, search, result, ladderMin>>
  /\ UNCHANGED others

\* getImageInfo's img.onload resolves and handleFileSelect goes on: the crop
\* selector is shown, or an image that is already 16:9 is processed
\* directly by processImageWithCrop(file, info, null)
GetImageInfoOnLoad ==
  /\ pc = "info"
  /\ IF needsCropSelector(getImageInfo(req.file))
     THEN /\ pc' = "crop"
          /\ UNCHANGED <<req, canvas, encodes, search, result, ladderMin, log>>
     ELSE processImage("handleFileSelect", req.file, Some(appTargetQuality),
                       Null, "JPEG")
  /\ UNCHANGED others

\* handleCropSelect: Confirm Crop of the crop selector
HandleCropSelect ==
  /\ pc = "crop"
  /\ \E cropParameters \in ConfirmedCrops(req.file) :
       processImage("handleCropSelect", req.file, Some(appTargetQuality),
                    Some(cropParameters), "JPEG")
  /\ UNCHANGED others

\* handleSkipCrop: Use Center Crop of the crop selector
HandleSkipCrop ==
  /\ pc = "crop"
  /\ processImage("handleSkipCrop", req.file, Some(appTargetQuality), Null,
                  "JPEG")
  /\ UNCHANGED others

(***************************************************************************)
(* ImagePreview: reprocessing.  The component's state (selectedQuality,    *)
(* selectedFormat, customQuality) is an input of each handler.  App does   *)
(* not hand cropParams to ImagePreview, so the argument is undefined and   *)
(* processImage's default (null) applies.                                  *)
(***************************************************************************)
HandleQualityChange ==
  /\ pc = "idle"
  /\ \E file \in Files, selectedQuality \in QualityOptions,
     newQuality \in QualityOptions, customQuality \in CustomQualities,
     selectedFormat \in Formats :
    /\ newQuality # selectedQuality
    /\ processImage("handleQualityChange", file,
                    targetQualityOf(newQuality, customQuality), Null,
                    selectedFormat)
  /\ UNCHANGED others

HandleFormatChange ==
  /\ pc = "idle"
  /\ \E file \in Files, selectedQuality \in QualityOptions,
     customQuality \in CustomQualities,
     selectedFormat \in Formats, newFormat \in Formats :
    /\ newFormat # selectedFormat
    /\ processImage("handleFormatChange", file,
                    targetQualityOf(selectedQuality, customQuality), Null,
                    newFormat)
  /\ UNCHANGED others

HandleCustomQualityChange ==
  /\ pc = "idle"
  /\ \E file \in Files, selectedQuality \in QualityOptions,
     quality \in CustomQualities, selectedFormat \in Formats :
    /\ selectedQuality = "custom"
    /\ processImage("handleCustomQualityChange", file, Some(quality), Null,
                    selectedFormat)
  /\ UNCHANGED others

(***************************************************************************)
(* processImage: the image handlers and the toBlob callbacks.              *)
(***************************************************************************)
JPEG == "image/jpeg"
PNG == "image/png"

\* img.onerror does not reject: the promise is left pending
ImgOnError_Mut ==
  /\ pc = "loading"
  /\ pc' = "hung"
  /\ log' = <<"onerror">>
  /\ UNCHANGED <<req, canvas, encodes, search, result, ladderMin>>
  /\ UNCHANGED others

\* img.onerror
ImgOnError ==
  /\ pc = "loading"
  /\ pc' = "rejected"
  /\ log' = <<"onerror">>
  /\ UNCHANGED <<req, canvas, encodes, search, result, ladderMin>>
  /\ UNCHANGED others

\* the first toBlob call is made before the canvas is scanned
onloadSteps_Mut(path) ==
  <<"onload", "ctx.clearRect", "ctx.drawImage">>
    \o (IF path = "png" THEN <<"toBlob", "ctx.getImageData">>
        ELSE <<"tempCtx.fillRect", "tempCtx.drawImage", "toBlob",
               "ctx.getImageData">>)

\* the canvas operations of img.onload in program order, up to the first
\* toBlob call: the PNG path encodes the composed canvas, the JPEG paths
\* first paint it over a white temporary canvas
onloadSteps(path) ==
  <<"onload", "ctx.clearRect", "ctx.drawImage", "ctx.getImageData">>
    \o (IF path = "png" THEN <<"toBlob">>
        ELSE <<"tempCtx.fillRect", "tempCtx.drawImage", "toBlob">>)

\* img.onload: geometry, composition, transparency scan, and the first
\* toBlob call of the path taken
ImgOnLoad ==
  /\ pc = "loading"
  /\ LET alphas == canvasAlphas(req.file.img, req.cropParams)
         imageHasTransparency == hasTransparency(alphas)
     IN  /\ canvas' = [alphas |-> alphas,
                       imageHasTransparency |-> imageHasTransparency]
         /\ pc' = encodePath(imageHasTransparency, req.targetQuality)
         /\ encodes' =
              CASE pc' = "png" -> <<(<<PNG, Null>>)>>
                [] pc' = "explicit" -> <<(<<JPEG, req.targetQuality>>)>>
                [] pc' = "ladder" ->
                     <<(<<JPEG, Some(qualityLevels(req.file)[1])>>)>>
         /\ search' =
              IF pc' = "ladder"
              THEN [i |-> 1, bestBlob |-> Null,
                    bestQuality |-> startQuality(req.file),
                    bestCompressionRatio |-> FInt(0),
                    highQualityBlob |-> Null]
              ELSE search
         /\ log' = onloadSteps(pc')
  /\ UNCHANGED <<req, result, ladderMin>>
  /\ UNCHANGED others

\* the sizes the toBlob call at a quality may deliver
Delivers(quality) ==
  IF IsNull(encoder) THEN BlobSizes(req.file) ELSE {Val(encoder)[quality]}

\* canvas.toBlob(..., 'image/png') delivers its blob
PngBlob ==
  /\ pc = "png"
  /\ \E size \in Delivers(100) :
       result' = Some(pngResult(Blob(PNG, Null, size, Len(encodes)),
                                req.cropParams))
  /\ pc' = "resolved"
  /\ UNCHANGED <<req, canvas, encodes, search, ladderMin, log>>
  /\ UNCHANGED others

\* compressImage(targetQuality) delivers its blob
ExplicitBlob ==
  /\ pc = "explicit"
  /\ \E size \in Delivers(Val(req.targetQuality)) :
       result' = Some(jpegResult(req.file,
                                 Blob(JPEG, req.targetQuality, size,
                                      Len(encodes)),
                                 Val(req.targetQuality), req.cropParams))
  /\ pc' = "resolved"
  /\ UNCHANGED <<req, canvas, encodes, search, ladderMin, log>>
  /\ UNCHANGED others

\* the fallback is taken whether or not the ladder found a candidate
needsFallback_Mut(s) == TRUE

\* if (!bestBlob): no ladder candidate was strictly smaller than the file
needsFallback(s) == IsNull(s.bestBlob)

\* findOptimalCompression once bestBlob is set: the quality-98 rule, then
\* the result
Selected(s) ==
  IF tryHighQuality(req.file, Val(s.bestBlob))
  THEN /\ pc' = "high"
       /\ encodes' = Append(encodes, <<JPEG, Some(highQuality)>>)
       /\ log' = Append(log, "toBlob")
       /\ search' = s
       /\ result' = result
  ELSE /\ pc' = "resolved"
       /\ encodes' = encodes
       /\ log' = log
       /\ search' = s
       /\ result' = Some(jpegResult(req.file, Val(s.bestBlob),
                                    MathRound(s.bestQuality, 1),
                                    req.cropParams))

\* one iteration of the ladder loop: compressImage(quality) delivers its blob
LadderBlob ==
  /\ pc = "ladder"
  /\ \E size \in Delivers(qualityLevels(req.file)[search.i]) :
       LET levels == qualityLevels(req.file)
           quality == levels[search.i]
           blob == Blob(JPEG, Some(quality), size, Len(encodes))
           s == IF betterCandidate(req.file, blob, search.bestCompressionRatio)
                THEN [search EXCEPT
                        !.bestBlob = Some(blob),
                        !.bestQuality = quality,
                        !.bestCompressionRatio = compressionRatio(req.file, blob)]
                ELSE search
       IN  /\ ladderMin' =
                IF /\ size < req.file.size
                   /\ (IsNull(ladderMin) \/ size < Val(ladderMin).size)
                THEN Some(blob) ELSE ladderMin
           /\ IF search.i < Len(levels)
              THEN /\ pc' = "ladder"
                   /\ encodes' = Append(encodes, <<JPEG, Some(levels[search.i + 1])>>)
                   /\ log' = Append(log, "toBlob")
                   /\ search' = [s EXCEPT !.i = search.i + 1]
                   /\ result' = result
              ELSE IF needsFallback(s)
              THEN /\ pc' = "fallback"
                   /\ encodes' = Append(encodes, <<JPEG, Some(maxQuality)>>)
                   /\ log' = Append(log, "toBlob")
                   /\ search' = s
                   /\ result' = result
              ELSE Selected(s)
  /\ UNCHANGED <<req, canvas>>
  /\ UNCHANGED others

\* the fallback forgets to set bestQuality, which keeps startQuality
FallbackBlob_Mut ==
  /\ pc = "fallback"
  /\ \E size \in Delivers(maxQuality) :
       Selected([search EXCEPT
                   !.bestBlob = Some(Blob(JPEG, Some(maxQuality), size,
                                          Len(encodes)))])
  /\ UNCHANGED <<req, canvas, ladderMin>>
  /\ UNCHANGED others

\* the fallback compressImage(maxQuality) delivers its blob
FallbackBlob ==
  /\ pc = "fallback"
  /\ \E size \in Delivers(maxQuality) :
       Selected([search EXCEPT
                   !.bestBlob = Some(Blob(JPEG, Some(maxQuality), size,
                                          Len(encodes))),
                   !.bestQuality = maxQuality])
  /\ UNCHANGED <<req, canvas, ladderMin>>
  /\ UNCHANGED others

\* compressImage(98) delivers its blob
HighQualityBlob ==
  /\ pc = "high"
  /\ \E size \in Delivers(highQuality) :
       LET highQualityBlob == Blob(JPEG, Some(highQuality), size, Len(encodes))
           s == IF acceptHighQuality(req.file, highQualityBlob)
                THEN [search EXCEPT !.bestBlob = Some(highQualityBlob),
                                    !.bestQuality = highQuality,
                                    !.highQualityBlob = Some(highQualityBlob)]
                ELSE [search EXCEPT
                        !.highQualityBlob = Some(highQualityBlob)]
       IN  /\ search' = s
           /\ result' = Some(jpegResult(req.file, Val(s.bestBlob),
                                        MathRound(s.bestQuality, 1),
                                        req.cropParams))
  /\ pc' = "resolved"
  /\ UNCHANGED <<req, canvas, encodes, ladderMin, log>>
  /\ UNCHANGED others

\* toBlob delivers null: the callback throws on blob.size and the promise
\* of processImage is never settled
NullBlob ==
  /\ pc \in {"png", "explicit", "ladder", "fallback", "high"}
  /\ pc' = "hung"
  /\ log' = Append(log, "null")
  /\ UNCHANGED <<req, canvas, encodes, search, result, ladderMin>>
  /\ UNCHANGED others

\* the caller's await returns (result stored, or error caught)
Settled ==
  /\ pc \in {"resolved", "rejected"}
  /\ pc' = "idle"
  /\ req' = NoReq
  /\ canvas' = NoCanvas
  /\ encodes' = <<>>
  /\ search' = NoSearch
  /\ result' = Null
  /\ ladderMin' = Null
  /\ log' = <<>>
  /\ UNCHANGED others

Next ==
  \/ HandleFileSelect
  \/ GetImageInfoOnError
  \/ GetImageInfoOnLoad
  \/ HandleCropSelect
  \/ HandleSkipCrop
  \/ HandleQualityChange
  \/ HandleFormatChange
  \/ HandleCustomQualityChange
  \/ ImgOnError
  \/ ImgOnLoad
  \/ PngBlob
  \/ ExplicitBlob
  \/ LadderBlob
  \/ FallbackBlob
  \/ HighQualityBlob
  \/ NullBlob
  \/ Settled

Spec == Init /\ [][Next]_vars

TypeOK ==
  /\ pc \in {"idle", "info", "crop", "loading", "png", "explicit", "ladder",
             "fallback", "high", "resolved", "rejected", "hung"}
  /\ (pc = "resolved") = ~IsNull(result)

(***************************************************************************)
(* Properties.                                                             *)
(***************************************************************************)
\* the conversion in progress searches for a quality (targetQuality null,
\* composed canvas opaque)
AutoSearch ==
  /\ pc \in {"ladder", "fallback", "high", "resolved", "hung"}
  /\ IsNull(req.targetQuality)
  /\ \A a \in canvas.alphas : a = 255

\* the qualities of the toBlob calls started so far
EncodedQualities == {encodes[k][2] : k \in 1 .. Len(encodes)}

C2_DefaultDimensions ==
  (pc = "resolved" /\ IsNull(req.cropParams))
    => Val(result).dimensions = [width |-> 1920, height |-> 1080]

\* an auto-search result of a source that is not 16:9, without a crop
C2_Witness ==
  /\ pc = "resolved"
  /\ IsNull(req.cropParams)
  /\ AutoSearch
  /\ req.file.img.width = 2
  /\ Val(result).dimensions = [width |-> 1920, height |-> 1080]

\* C3: with a targetQuality and an opaque canvas there is exactly one
\* encode, at that quality, no ladder sweep, and the result's quality is
\* targetQuality.
C3_ExplicitQuality ==
  (/\ pc \notin {"idle", "loading", "rejected"}
   /\ ~IsNull(req.targetQuality)
   /\ \A a \in canvas.alphas : a = 255)
    => /\ pc \in {"explicit", "resolved", "hung"}
       /\ encodes = <<(<<JPEG, req.targetQuality>>)>>
       /\ pc = "resolved" =>
            /\ Val(result).quality = Val(req.targetQuality)
            /\ Val(result).blob.quality = req.targetQuality
            /\ Val(result).blob.id = 1

\* targetQuality 50 on an opaque source
C3_Witness ==
  /\ pc = "resolved"
  /\ req.targetQuality = Some(50)
  /\ canvas.alphas = {255}
  /\ Val(result).quality = 50
  /\ Len(encodes) = 1

\* C4: the auto search encodes all 8 ladder qualities, and if a candidate
\* is strictly smaller than the original file the result is the first
\* candidate of minimum size among those, with that candidate's quality.
C4_BestCandidate ==
  (pc = "resolved" /\ AutoSearch)
    => /\ Len(encodes) >= 8
       /\ \A k \in 1 .. 8 :
            encodes[k] = <<JPEG, Some(qualityLevels(req.file)[k])>>
       /\ ~IsNull(ladderMin) =>
            /\ Val(result).blob = Val(ladderMin)
            /\ Some(Val(result).quality) = Val(ladderMin).quality
            /\ Len(encodes) = 8

\* the third candidate was the first of the smallest size and was returned
C4_Witness ==
  /\ pc = "resolved"
  /\ AutoSearch
  /\ ~IsNull(ladderMin)
  /\ Val(result).blob.id = 3
  /\ Val(result).blob.size = req.file.size - 2
  /\ Val(result).quality = 75

\* C5: if no ladder candidate is strictly smaller than the original file,
\* the result is the encode at quality 95 made after the ladder, with
\* quality 95, unless the quality-98 blob replaced it.
C5_Fallback ==
  (pc = "resolved" /\ AutoSearch /\ IsNull(ladderMin))
    => \/ /\ Val(result).quality = 95
          /\ Val(result).blob.quality = Some(95)
          /\ Val(result).blob.id = 9
       \/ /\ Val(result).quality = 98
          /\ Val(result).blob.quality = Some(98)
          /\ Val(result).blob.id = 10
          /\ req.file.size < 100 * KB

\* a file of 100 KB or more whose candidates are all too large
C5_Witness ==
  /\ pc = "resolved"
  /\ AutoSearch
  /\ IsNull(ladderMin)
  /\ req.file.size > 2000 * KB
  /\ Val(result).quality = 95
  /\ Val(result).blob.size > req.file.size

\* C6: quality 98 is encoded only when the original is smaller than 100 KB
\* and the selected blob is strictly larger than the original; its blob is
\* the result (quality 98) iff its size is <= the original size, otherwise
\* the quality-95 fallback is kept.
C6_HighQualityRule ==
  /\ Some(98) \in EncodedQualities =>
       /\ pc \in {"high", "resolved", "hung"}
       /\ req.file.size < 100 * KB
       /\ encodes[Len(encodes)] = <<JPEG, Some(98)>>
  /\ pc = "high" => Val(search.bestBlob).size > req.file.size
  /\ (pc = "resolved" /\ Some(98) \in EncodedQualities) =>
       LET highQualityBlob == Val(search.highQualityBlob)
       IN  IF highQualityBlob.size <= req.file.size
           THEN /\ Val(result).blob = highQualityBlob
                /\ Val(result).quality = 98
           ELSE /\ Val(result).quality = 95
                /\ Val(result).blob.quality = Some(95)
                /\ Val(result).blob.id = 9

\* the quality-98 blob has exactly the size of the original and is taken
C6_Witness ==
  /\ pc = "resolved"
  /\ Some(98) \in EncodedQualities
  /\ Val(search.highQualityBlob).size = req.file.size
  /\ Val(result).quality = 98

\* C7: the ladder is [95, 85, 75, 65, 55, 45, 35, minQuality] in this
\* order, minQuality being 30 up to 1000 KB, 25 above 1000 KB up to
\* 2000 KB and 20 above 2000 KB; nothing else is encoded but the 95
\* fallback and 98.
C7_Ladder ==
  AutoSearch =>
    LET m == IF req.file.size <= 1000 * KB THEN 30
             ELSE IF req.file.size <= 2000 * KB THEN 25
             ELSE 20
        ladder == <<95, 85, 75, 65, 55, 45, 35, m>>
    IN  /\ \A k \in 1 .. Len(encodes) :
             /\ k <= 8 => encodes[k] = <<JPEG, Some(ladder[k])>>
             /\ k > 8 => encodes[k] \in {<<JPEG, Some(95)>>, <<JPEG, Some(98)>>}
        /\ pc \in {"fallback", "high", "resolved"} => Len(encodes) >= 8
        /\ pc = "ladder" => Len(encodes) = search.i

\* a file of exactly 2000 KB ended its ladder at quality 25
C7_Witness ==
  /\ pc = "resolved"
  /\ AutoSearch
  /\ req.file.size = 2000 * KB
  /\ encodes[8] = <<JPEG, Some(25)>>

\* C8: a PNG result comes from exactly one encode, as PNG, without a
\* quality sweep, and has quality 100 whatever targetQuality was.
C8_LosslessPath ==
  (pc = "resolved" /\ Val(result).format = "PNG")
    => /\ encodes = <<(<<PNG, Null>>)>>
       /\ Val(result).quality = 100
       /\ Val(result).blob.type = PNG

\* a PNG result of a call that asked for quality 50
C8_Witness ==
  /\ pc = "resolved"
  /\ Val(result).format = "PNG"
  /\ req.targetQuality = Some(50)
  /\ Val(result).quality = 100

\* C9: the result's format is the requested output format, except that
\* JPEG with transparency becomes PNG.
C9_RequestedFormat ==
  pc = "resolved" =>
    IF req.outputFormat = "JPEG" /\ \E a \in canvas.alphas : a < 255
    THEN Val(result).format = "PNG"
    ELSE Val(result).format = req.outputFormat

\* C10: every targetQuality passed to processImage is null or in 1..100
\* and every result's quality is an integer in 0..100.
C10_QualityRange ==
  /\ pc # "idle" =>
       IsNull(req.targetQuality) \/ Val(req.targetQuality) \in 1 .. 100
  /\ pc = "resolved" => Val(result).quality \in 0 .. 100

\* what the specification lists as the content of every result
ResultFields ==
  {"blob", "dimensions", "format", "quality", "preservedTransparency",
   "originalSizeKB", "compressionRatio"}

\* round((1 - resultSize / originalSize) * 100)
RatioPercent(resultSize, originalSize) ==
  LET r == FMul(FSub(FInt(1), FNorm(resultSize, originalSize)), FInt(100))
  IN  MathRound(r[1], r[2])

\* C11: every result, whether of the transparent PNG path, the explicit
\* JPEG path or the auto JPEG path, carries the bytes, dimensions, format,
\* quality, transparency flag, original size and compression ratio, and the
\* compression ratio is round((1 - resultSize / originalSize) * 100).
C11_ResultContent ==
  pc = "resolved" =>
    /\ ResultFields \subseteq DOMAIN Val(result)
    /\ Val(result).compressionRatio
         = RatioPercent(Val(result).size, req.file.size)

\* the result reports a negative compression ratio
NegativeRatio ==
  /\ pc = "resolved"
  /\ "compressionRatio" \in DOMAIN Val(result)
  /\ Val(result).compressionRatio < 0

OpaqueAutoCall ==
  /\ pc = "resolved"
  /\ ~SourceHasAlpha(req.file.img)
  /\ IsNull(req.cropParams)
  /\ IsNull(req.targetQuality)

\* C13 (as amended): for an opaque source with no crop and no explicit
\* quality the result is a 1920x1080 JPEG whose quality is one of 35, 45,
\* 55, 65, 75, 85, 95, the size-dependent ladder floor (30, or 25 above
\* 1000 KB, or 20 above 2000 KB), or 98, for every file size and every
\* assignment of sizes to the encodes.
C13_AutoResult ==
  OpaqueAutoCall =>
    /\ Val(result).format = "JPEG"
    /\ Val(result).dimensions = [width |-> 1920, height |-> 1080]
    /\ Val(result).quality \in
         {35, 45, 55, 65, 75, 85, 95, 98}
           \cup {IF req.file.size > 2000 * KB THEN 20
                 ELSE IF req.file.size > 1000 * KB THEN 25 ELSE 30}

\* the last step of the ladder, quality 20 for a file above 2000 KB, gave
\* the smallest blob and is the result
C13_Witness ==
  /\ OpaqueAutoCall
  /\ req.file.size > 2000 * KB
  /\ Val(result).quality = 20
  /\ Val(result).size < req.file.size

\* C13 (as stated): for an opaque source with no crop and no explicit
\* quality the result is a 1920x1080 JPEG whose quality is one of 35, 45,
\* 55, 65, 75, 85, 95, or 98.
C13_QualityFromFixedSet ==
  OpaqueAutoCall =>
    /\ Val(result).format = "JPEG"
    /\ Val(result).dimensions = [width |-> 1920, height |-> 1080]
    /\ Val(result).quality \in {35, 45, 55, 65, 75, 85, 95, 98}

\* img.onload has run: the canvas is composed and an encode was started
Composed ==
  pc \in {"png", "explicit", "ladder", "fallback", "high", "resolved", "hung"}

\* x, y, width, height in [0,1], x + width <= 1 and y + height <= 1
ValidCrop(c) ==
  /\ \A v \in {c.x, c.y, c.width, c.height} :
       FLe(FInt(0), v) /\ FLe(v, FInt(1))
  /\ FLe(FAdd(c.x, c.width), FInt(1))
  /\ FLe(FAdd(c.y, c.height), FInt(1))

\* C14: for every crop with x, y, width, height in [0,1], x + width <= 1 and
\* y + height <= 1, the source rectangle handed to drawImage lies within the
\* source image: 0 <= sourceX, 0 <= sourceY, sourceX + sourceWidth <= W and
\* sourceY + sourceHeight <= H.
C14_SourceRectInBounds ==
  (/\ Composed
   /\ ~IsNull(req.cropParams)
   /\ ValidCrop(Val(req.cropParams)))
    => LET g == placement(req.file.img, req.cropParams)
       IN  /\ FLe(FInt(0), g.sourceX)
           /\ FLe(FInt(0), g.sourceY)
           /\ FLe(FAdd(g.sourceX, g.sourceWidth), FInt(req.file.img.width))
           /\ FLe(FAdd(g.sourceY, g.sourceHeight), FInt(req.file.img.height))

\* a zoomed crop of the 4x1 image pushed against the right edge: its source
\* rectangle starts inside the image and ends exactly at W
C14_Witness ==
  /\ Composed
  /\ ~IsNull(req.cropParams)
  /\ ValidCrop(Val(req.cropParams))
  /\ req.file.img.width = 4
  /\ FLt(FInt(0), Val(req.cropParams).x)
  /\ LET g == placement(req.file.img, req.cropParams)
     IN  /\ FAdd(g.sourceX, g.sourceWidth) = FInt(4)
         /\ FLt(g.sourceHeight, FInt(1))

\* C15: when a crop is supplied the result's dimensions are the crop's
\* outputDimensions, the destination rectangle is the whole canvas (offset
\* 0,0, size targetWidth x targetHeight), and outputDimensions has the
\* nominal ratio of the crop's tag: 16:9 -> 1920x1080, 9:16 -> 1080x1920,
\* 1:1 -> 1080x1080.
C15_CropOutput ==
  (pc = "resolved" /\ ~IsNull(req.cropParams))
    => LET c == Val(req.cropParams)
           g == placement(req.file.img, req.cropParams)
           dims == Val(result).dimensions
       IN  /\ dims = c.outputDimensions
           /\ g.offsetX = FInt(0)
           /\ g.offsetY = FInt(0)
           /\ g.drawWidth = FInt(dims.width)
           /\ g.drawHeight = FInt(dims.height)
           /\ FNorm(dims.width, dims.height) = FNorm(aspectRatios[c.aspectRatio][1],
                                                     aspectRatios[c.aspectRatio][2])
           /\ dims = CASE c.aspectRatio = "16:9" -> [width |-> 1920, height |-> 1080]
                       [] c.aspectRatio = "9:16" -> [width |-> 1080, height |-> 1920]
                       [] c.aspectRatio = "1:1"  -> [width |-> 1080, height |-> 1080]

\* a portrait crop gave a 1080x1920 result
C15_Witness ==
  /\ pc = "resolved"
  /\ ~IsNull(req.cropParams)
  /\ Val(req.cropParams).aspectRatio = "9:16"
  /\ Val(result).dimensions = [width |-> 1080, height |-> 1920]

C17_Letterbox ==
  (Composed /\ IsNull(req.cropParams))
    => LET g == placement(req.file.img, Null)
       IN  /\ visiblePixels(req.file.img, Null) = Pixels(req.file.img)
           /\ FLe(FInt(0), g.offsetX)
           /\ FLe(FInt(0), g.offsetY)
           /\ FLe(FAdd(g.offsetX, g.drawWidth), FInt(1920))
           /\ FLe(FAdd(g.offsetY, g.drawHeight), FInt(1080))
           /\ FDiv(g.drawWidth, g.drawHeight)
                = FNorm(req.file.img.width, req.file.img.height)

\* the positions of a step in the log of the call
Steps(name) == {i \in 1 .. Len(log) : log[i] = name}

\* C18: if the source fails to decode (the image's onerror fires), the call
\* of processImage or getImageInfo is rejected, no encode is performed and
\* no result is delivered.
C18_DecodeFailure ==
  Steps("onerror") # {}
    => /\ pc = "rejected"
       /\ encodes = <<>>
       /\ Steps("toBlob") = {}
       /\ IsNull(result)

\* processImage, called with a confirmed crop, was rejected by img.onerror
C18_Witness ==
  /\ pc = "rejected"
  /\ log = <<"onerror">>
  /\ req.caller = "handleCropSelect"
  /\ ~IsNull(req.cropParams)

\* C19: if an encode step delivers no blob, on any path, the call ends as a
\* failure: its promise is rejected; it is not left pending and it does not
\* resolve with a result.
C19_EncodeFailure ==
  Steps("null") # {}
    => /\ pc = "rejected"
       /\ IsNull(result)

\* C20: within one call the composition (clearRect, then drawImage) and the
\* transparency scan are both complete before the first toBlob call, on
\* every path; every toBlob call of the call is in the log.
C20_ComposeScanBeforeEncode ==
  /\ Cardinality(Steps("toBlob")) = Len(encodes)
  /\ \A e \in Steps("toBlob") :
       /\ \E c \in Steps("ctx.clearRect"), d \in Steps("ctx.drawImage") :
            c < d /\ d < e
       /\ \E k \in Steps("ctx.getImageData") : k < e

\* the second encode of a ladder sweep is in flight
C20_Witness ==
  /\ pc = "ladder"
  /\ Len(encodes) = 2
  /\ Steps("toBlob") = {7, 8}
  /\ Steps("ctx.getImageData") = {4}

(***************************************************************************)
(* App and ImagePreview with several conversions in flight.  A call of     *)
(* getImageInfo or processImage is an entry of inflight from the moment it *)
(* is made until its promise settles; the promises settle in any order.    *)
(* What a conversion resolves with is a function of its arguments, see     *)
(* above; here the result keeps its format, dimensions and aspect-ratio    *)
(* tag, and the call it answers.                                           *)
(***************************************************************************)
\* the number of processImage calls of one run of the model
MaxConversions == 3

\* one opaque 16:9 image, one opaque and one fully transparent square image
AppFiles ==
  {f \in Files :
     /\ f.size = 100 * KB
     /\ \/ f.img.width = 16 /\ f.img.pattern = "opaque"
        \/ f.img.width = 2 /\ f.img.pattern \in {"opaque", "clear"}}

\* the crops confirmed in the selector: portrait and square, no zoom, centre
AppCrops(file) ==
  {handleConfirmCrop(getImageInfo(file), t, <<1, 1>>,
                     [x |-> <<1, 2>>, y |-> <<1, 2>>]) : t \in {"9:16", "1:1"}}

Call(call, comp, file, targetQuality, cropParams, outputFormat) ==
  [call |-> call, comp |-> comp, file |-> file,
   targetQuality |-> targetQuality, cropParams |-> cropParams,
   outputFormat |-> outputFormat, orphan |-> FALSE]

\* the outcome of the transparency scan for each file and crop used here
scanOf ==
  [f \in AppFiles |->
     [c \in {Null} \cup {Some(x) : x \in AppCrops(f)} |->
        hasTransparency(canvasAlphas(f.img, c))]]

\* what processImage resolves with for a call
convert(c) ==
  LET path == encodePath(scanOf[c.file][c.cropParams], c.targetQuality)
  IN  [format |-> IF path = "png" THEN "PNG" ELSE "JPEG",
       dimensions |-> targetDimensions(c.cropParams),
       aspectRatio |-> resultAspectRatio(c.cropParams),
       call |-> c]

RemoveAt(seq, i) == SubSeq(seq, 1, i - 1) \o SubSeq(seq, i + 1, Len(seq))

\* App.getCurrentStep
getCurrentStep ==
  IF IsNull(app.selectedFile) THEN "upload"
  ELSE IF app.showCropSelector THEN "crop"
  ELSE "preview"

\* ImagePreview is on screen: its render reads originalInfo.file
PreviewShown == getCurrentStep = "preview" /\ ~IsNull(app.originalInfo)

\* the variables of the single conversion stay as they are
EngineIdle == UNCHANGED <<pc, req, canvas, encodes, search, result, ladderMin,
                          log, encoder, selector>>

\* App.processImageWithCrop up to its await
processImageWithCrop(a, file, cropParameters, rest) ==
  /\ app' = [a EXCEPT !.isProcessing = TRUE]
  /\ inflight' = Append(rest, Call("processImage", "App", file,
                                   Some(appTargetQuality), cropParameters,
                                   "JPEG"))
  /\ started' = started + 1

\* App.handleFileSelect up to await getImageInfo(file)
AppFileSelect ==
  /\ getCurrentStep = "upload"
  /\ started < MaxConversions
  /\ \A i \in 1 .. Len(inflight) : inflight[i].call # "getImageInfo"
  /\ \E file \in AppFiles :
       /\ app' = [app EXCEPT !.error = Null, !.selectedFile = Some(file)]
       /\ inflight' = Append(inflight, Call("getImageInfo", "App", file, Null,
                                            Null, "JPEG"))
  /\ download' = Null
  /\ UNCHANGED <<preview, started>>
  /\ EngineIdle

\* getImageInfo resolved: the rest of App.handleFileSelect
AppInfoResolved ==
  /\ \E i \in 1 .. Len(inflight) :
       /\ inflight[i].call = "getImageInfo"
       /\ LET file == inflight[i].file
              info == getImageInfo(file)
              a == [app EXCEPT !.originalInfo = Some([info |-> info,
                                                      file |-> file])]
          IN  IF needsCropSelector(info)
              THEN /\ app' = [a EXCEPT !.showCropSelector = TRUE]
                   /\ inflight' = RemoveAt(inflight, i)
                   /\ started' = started
              ELSE processImageWithCrop(a, file, Null, RemoveAt(inflight, i))
  /\ download' = Null
  /\ UNCHANGED preview
  /\ EngineIdle

\* getImageInfo rejected: the catch of App.handleFileSelect
AppInfoRejected ==
  /\ \E i \in 1 .. Len(inflight) :
       /\ inflight[i].call = "getImageInfo"
       /\ inflight' = RemoveAt(inflight, i)
  /\ app' = [app EXCEPT !.error = Some("Failed to load image")]
  /\ download' = Null
  /\ UNCHANGED <<preview, started>>
  /\ EngineIdle

\* App.handleCropSelect
AppCropSelect ==
  /\ getCurrentStep = "crop"
  /\ started < MaxConversions
  /\ \E cropParameters \in AppCrops(Val(app.selectedFile)) :
       processImageWithCrop([app EXCEPT !.cropParams = Some(cropParameters),
                                        !.showCropSelector = FALSE],
                            Val(app.selectedFile), Some(cropParameters),
                            inflight)
  /\ download' = Null
  /\ UNCHANGED preview
  /\ EngineIdle

\* App.handleSkipCrop
AppSkipCrop ==
  /\ getCurrentStep = "crop"
  /\ started < MaxConversions
  /\ processImageWithCrop([app EXCEPT !.showCropSelector = FALSE],
                          Val(app.selectedFile), Null, inflight)
  /\ download' = Null
  /\ UNCHANGED preview
  /\ EngineIdle

\* processImage resolved: the rest of App.processImageWithCrop
AppConversionResolved ==
  /\ \E i \in 1 .. Len(inflight) :
       /\ inflight[i].call = "processImage"
       /\ inflight[i].comp = "App"
       /\ app' = [app EXCEPT !.processedResult = Some(convert(inflight[i])),
                             !.isProcessing = FALSE]
       /\ inflight' = RemoveAt(inflight, i)
  /\ download' = Null
  /\ UNCHANGED <<preview, started>>
  /\ EngineIdle

\* processImage rejected: catch and finally of App.processImageWithCrop
AppConversionRejected ==
  /\ \E i \in 1 .. Len(inflight) :
       /\ inflight[i].call = "processImage"
       /\ inflight[i].comp = "App"
       /\ inflight' = RemoveAt(inflight, i)
  /\ app' = [app EXCEPT !.error = Some("Failed to load image"),
                        !.isProcessing = FALSE]
  /\ download' = Null
  /\ UNCHANGED <<preview, started>>
  /\ EngineIdle

\* App.handleReset (Convert Another); ImagePreview is unmounted and the
\* calls it has in flight keep running
AppReset ==
  /\ PreviewShown
  /\ app' = InitialApp
  /\ preview' = InitialPreview
  /\ inflight' = [i \in 1 .. Len(inflight) |->
                    IF inflight[i].comp = "ImagePreview"
                    THEN [inflight[i] EXCEPT !.orphan = TRUE]
                    ELSE inflight[i]]
  /\ download' = Null
  /\ UNCHANGED started
  /\ EngineIdle

\* ImagePreview calls processImage(originalInfo.file, targetQuality,
\* cropParams, format); App passes no cropParams prop
reprocess(p, targetQuality, format) ==
  /\ preview' = [p EXCEPT !.isProcessing = TRUE, !.reprocessed = TRUE]
  /\ inflight' = Append(inflight,
                        Call("processImage", "ImagePreview",
                             Val(app.originalInfo).file, targetQuality, Null,
                             format))
  /\ started' = started + 1

\* ImagePreview.handleQualityChange up to its await
PreviewQualityChange ==
  /\ PreviewShown
  /\ started < MaxConversions
  /\ \E newQuality \in QualityOptions :
       /\ newQuality # preview.selectedQuality
       /\ reprocess([preview EXCEPT !.selectedQuality = newQuality],
                    targetQualityOf(newQuality, preview.customQuality),
                    preview.selectedFormat)
  /\ download' = Null
  /\ UNCHANGED app
  /\ EngineIdle

\* ImagePreview.handleFormatChange up to its await
PreviewFormatChange ==
  /\ PreviewShown
  /\ started < MaxConversions
  /\ \E newFormat \in Formats :
       /\ newFormat # preview.selectedFormat
       /\ reprocess([preview EXCEPT !.selectedFormat = newFormat],
                    targetQualityOf(preview.selectedQuality,
                                    preview.customQuality),
                    newFormat)
  /\ download' = Null
  /\ UNCHANGED app
  /\ EngineIdle

\* ImagePreview.handleCustomQualityChange up to its await; the slider is
\* on screen only while the custom option is selected and the format is
\* not PNG
PreviewCustomQualityChange ==
  /\ PreviewShown
  /\ preview.selectedQuality = "custom"
  /\ preview.selectedFormat # "PNG"
  /\ started < MaxConversions
  /\ \E quality \in CustomQualities :
       /\ quality # preview.customQuality
       /\ reprocess([preview EXCEPT !.customQuality = quality],
                    Some(quality), preview.selectedFormat)
  /\ download' = Null
  /\ UNCHANGED app
  /\ EngineIdle

\* processImage resolved: onReprocess(newResult), i.e. App.handleReprocess,
\* and the finally of the handler that awaited it
PreviewConversionResolved ==
  /\ \E i \in 1 .. Len(inflight) :
       /\ inflight[i].comp = "ImagePreview"
       /\ app' = [app EXCEPT !.processedResult = Some(convert(inflight[i]))]
       /\ preview' = IF inflight[i].orphan THEN preview
                     ELSE [preview EXCEPT !.isProcessing = FALSE]
       /\ inflight' = RemoveAt(inflight, i)
  /\ download' = Null
  /\ UNCHANGED started
  /\ EngineIdle

\* processImage rejected: catch and finally of the handler that awaited it
PreviewConversionRejected ==
  /\ \E i \in 1 .. Len(inflight) :
       /\ inflight[i].comp = "ImagePreview"
       /\ preview' = IF inflight[i].orphan THEN preview
                     ELSE [preview EXCEPT !.isProcessing = FALSE]
       /\ inflight' = RemoveAt(inflight, i)
  /\ download' = Null
  /\ UNCHANGED <<app, started>>
  /\ EngineIdle

(***************************************************************************)
(* ImagePreview: Download.  A file name is a sequence of parts, the last   *)
(* of which may be an extension.                                           *)
(***************************************************************************)
ImageExtensions == {".png", ".jpg", ".jpeg", ".webp"}

\* the name of the uploaded file
originalName == <<"image", ".png">>

\* what the user typed into the custom filename field (empty: none)
CustomFilenames == {<<>>, <<"photo">>, <<"photo", ".jpg">>, <<"photo", ".png">>}

\* filename.replace(/\.(png|jpg|jpeg|webp)$/i, '')
stripExtension(name) ==
  IF Len(name) > 0 /\ name[Len(name)] \in ImageExtensions
  THEN SubSeq(name, 1, Len(name) - 1)
  ELSE name

\* downloadImage: the extension of a format, added when the name has none
extensionOf(format) == IF format = "PNG" THEN ".png" ELSE ".jpg"

downloadImage(blobFormat, filename, format) ==
  [filename |-> IF \E k \in 1 .. Len(filename) : filename[k] \in ImageExtensions
                THEN filename
                ELSE Append(filename, extensionOf(format)),
   format |-> blobFormat]

\* ImagePreview.handleDownload: the extension follows selectedFormat
handleDownload(processedResult, selectedFormat, customFilename) ==
  LET extension == CASE selectedFormat = "PNG"  -> ".png"
                     [] selectedFormat = "WEBP" -> ".webp"
                     [] OTHER                   -> ".jpg"
      base == IF customFilename # <<>> THEN stripExtension(customFilename)
              ELSE stripExtension(originalName)
  IN  downloadImage(processedResult.format, Append(base, extension),
                    selectedFormat)

PreviewDownload ==
  /\ PreviewShown
  /\ ~IsNull(app.processedResult)
  /\ \E customFilename \in CustomFilenames :
       download' = Some(handleDownload(Val(app.processedResult),
                                       preview.selectedFormat, customFilename))
  /\ UNCHANGED <<app, preview, inflight, started>>
  /\ EngineIdle

NextApp ==
  \/ AppFileSelect
  \/ AppInfoResolved
  \/ AppInfoRejected
  \/ AppCropSelect
  \/ AppSkipCrop
  \/ AppConversionResolved
  \/ AppConversionRejected
  \/ AppReset
  \/ PreviewQualityChange
  \/ PreviewFormatChange
  \/ PreviewCustomQualityChange
  \/ PreviewConversionResolved
  \/ PreviewConversionRejected
  \/ PreviewDownload

SpecApp == Init /\ [][NextApp]_vars

\* C21: abandoned conversions are discarded.  After a reset processedResult
\* stays null until a conversion of a newly selected file completes (no file
\* selected, no result stored), and the preview never shows a result that
\* was computed from a file other than the selected one.
C21_AbandonedDiscarded ==
  /\ IsNull(app.selectedFile) => IsNull(app.processedResult)
  /\ (PreviewShown /\ ~IsNull(app.processedResult))
       => Val(app.processedResult).call.file = Val(app.selectedFile)

(***************************************************************************)
(* CropSelector as a state machine.  The selector is on screen (pc is      *)
(* "crop") for the file of req; every event handler is followed by the     *)
(* render of the component, which skips the selection by itself when the   *)
(* image already has the selected aspect ratio and the zoom is 1.          *)
(***************************************************************************)
\* the images the selector is shown for: not 16:9
CropFiles ==
  {f \in Files : /\ f.size = 100 * KB
                 /\ f.img.pattern = "opaque"
                 /\ needsCropSelector(getImageInfo(f))}

\* cursor positions relative to the image, also outside of it
RawCoords == {<<-1, 2>>, <<0, 1>>, <<1, 2>>, <<1, 1>>, <<3, 2>>}

\* the values of the zoom slider: 1 to 3 in steps of 0.1
SliderZooms == {FNorm(k, 10) : k \in 10 .. 30}

\* the dimensions the selector announces for an aspect ratio
announcedDimensions ==
  [t \in AspectRatioTags |->
     CASE t = "16:9" -> [width |-> 1920, height |-> 1080]
       [] t = "9:16" -> [width |-> 1080, height |-> 1920]
       [] t = "1:1"  -> [width |-> 1080, height |-> 1080]]

\* CropSelector.needsCropping
needsCropping(info, aspectRatio) ==
  LET diff == FSub(FDiv(FInt(info.width), FInt(info.height)),
                   FNorm(aspectRatios[aspectRatio][1],
                         aspectRatios[aspectRatio][2]))
      absDiff == IF diff[1] < 0 THEN <<-diff[1], diff[2]>> ELSE diff
  IN  FLt(<<1, 100>>, absDiff)

\* Math.max(1, Math.min(3, prev + delta))
clampZoom(zoomLevel) == FMax(FInt(1), FMin(FInt(3), zoomLevel))

\* Math.max(0, Math.min(1, v))
clampUnit(v) == FMax(FInt(0), FMin(FInt(1), v))

OutsideSelector ==
  UNCHANGED <<encoder, app, preview, inflight, started, download>>

EngineUntouched ==
  UNCHANGED <<pc, req, canvas, encodes, search, result, ladderMin, log>>

\* the render that follows a state change of the selector
render(s) ==
  /\ selector' = s
  /\ IF ~needsCropping(getImageInfo(req.file), s.aspectRatio)
        /\ s.zoomLevel = FInt(1)
     THEN processImage("handleSkipCrop", req.file, Some(appTargetQuality),
                       Null, "JPEG")
     ELSE EngineUntouched
  /\ OutsideSelector

SelectorMouseDown ==
  /\ pc = "crop"
  /\ render([selector EXCEPT !.isDragging = TRUE, !.event = "mousedown"])

\* handleMouseMove and throttledMouseMove
SelectorMouseMove ==
  /\ pc = "crop"
  /\ selector.isDragging
  /\ \E x \in RawCoords, y \in RawCoords :
       render([selector EXCEPT
                 !.cropPosition = [x |-> clampUnit(x), y |-> clampUnit(y)],
                 !.event = "mousemove"])

SelectorMouseUp ==
  /\ pc = "crop"
  /\ selector.isDragging
  /\ render([selector EXCEPT !.isDragging = FALSE, !.event = "mouseup"])

\* handleWheel and throttledWheel
SelectorWheel ==
  /\ pc = "crop"
  /\ \E delta \in {<<-1, 10>>, <<1, 10>>} :
       render([selector EXCEPT
                 !.zoomLevel = clampZoom(FAdd(selector.zoomLevel, delta)),
                 !.event = "wheel"])

SelectorZoomButton ==
  /\ pc = "crop"
  /\ \E delta \in {<<-1, 5>>, <<1, 5>>} :
       render([selector EXCEPT
                 !.zoomLevel = clampZoom(FAdd(selector.zoomLevel, delta)),
                 !.event = "zoombutton"])

\* handleZoomChange: the slider
SelectorZoomChange ==
  /\ pc = "crop"
  /\ \E value \in SliderZooms :
       /\ value # selector.zoomLevel
       /\ render([selector EXCEPT !.zoomLevel = value, !.event = "zoomslider"])

SelectorAspectRatioChange ==
  /\ pc = "crop"
  /\ \E newRatio \in AspectRatioTags :
       render([selector EXCEPT !.aspectRatio = newRatio,
                               !.zoomLevel = FInt(1),
                               !.event = "aspectratio"])

\* Confirm Crop: handleConfirmCrop -> onCropSelect -> App.handleCropSelect
SelectorConfirmCrop ==
  /\ pc = "crop"
  /\ selector' = [selector EXCEPT !.event = "confirm"]
  /\ processImage("handleCropSelect", req.file, Some(appTargetQuality),
                  Some(handleConfirmCrop(getImageInfo(req.file),
                                         selector.aspectRatio,
                                         selector.zoomLevel,
                                         selector.cropPosition)),
                  "JPEG")
  /\ OutsideSelector

\* Use Center Crop: onSkip -> App.handleSkipCrop
SelectorUseCenterCrop ==
  /\ pc = "crop"
  /\ selector' = [selector EXCEPT !.event = "skip"]
  /\ processImage("handleSkipCrop", req.file, Some(appTargetQuality), Null,
                  "JPEG")
  /\ OutsideSelector

\* App has shown the selector for a file
InitCrop ==
  /\ InitOthers
  /\ pc = "crop"
  /\ \E file \in CropFiles :
       req = [NoReq EXCEPT !.caller = "handleFileSelect", !.file = file]
  /\ canvas = NoCanvas
  /\ encodes = <<>>
  /\ search = NoSearch
  /\ result = Null
  /\ ladderMin = Null
  /\ log = <<>>

NextCrop ==
  \/ SelectorMouseDown
  \/ SelectorMouseMove
  \/ SelectorMouseUp
  \/ SelectorWheel
  \/ SelectorZoomButton
  \/ SelectorZoomChange
  \/ SelectorAspectRatioChange
  \/ SelectorConfirmCrop
  \/ SelectorUseCenterCrop

SpecCrop == InitCrop /\ [][NextCrop]_vars

\* C22: after any sequence of drag, wheel, zoom-button, zoom-slider and
\* aspect-ratio events the zoom level is within [1, 3], and the crop that
\* Confirm Crop hands over has 0 < width <= 1, 0 < height <= 1,
\* 0 <= x <= 1 - width and 0 <= y <= 1 - height.
C22_CropSpecClamped ==
  /\ FLe(FInt(1), selector.zoomLevel)
  /\ FLe(selector.zoomLevel, FInt(3))
  /\ (pc = "loading" /\ ~IsNull(req.cropParams))
       => LET c == Val(req.cropParams)
          IN  /\ FLt(FInt(0), c.width) /\ FLe(c.width, FInt(1))
              /\ FLt(FInt(0), c.height) /\ FLe(c.height, FInt(1))
              /\ FLe(FInt(0), c.x) /\ FLe(c.x, FSub(FInt(1), c.width))
              /\ FLe(FInt(0), c.y) /\ FLe(c.y, FSub(FInt(1), c.height))

\* a crop confirmed at zoom 3 after a drag beyond the right edge: it ends
\* exactly at the edge
C22_Witness ==
  /\ pc = "loading"
  /\ selector.event = "confirm"
  /\ selector.zoomLevel = FInt(3)
  /\ selector.cropPosition.x = FInt(1)
  /\ FLt(FInt(0), Val(req.cropParams).x)
  /\ FAdd(Val(req.cropParams).x, Val(req.cropParams).width) = FInt(1)

\* C23: no drag, mouse-move, zoom or aspect-ratio event starts a conversion:
\* a conversion leaving the crop step was started by Confirm Crop, with the
\* crop of the selector's state at that moment, or by the skip button, with
\* no crop.
C23_OnlyConfirmOrSkipConverts ==
  pc = "loading"
    => \/ /\ selector.event = "confirm"
          /\ req.cropParams =
               Some(handleConfirmCrop(getImageInfo(req.file),
                                      selector.aspectRatio, selector.zoomLevel,
                                      selector.cropPosition))
       \/ /\ selector.event = "skip"
          /\ IsNull(req.cropParams)

\* C24: however the crop step is left with aspect ratio R selected, the output
\* of the conversion has the dimensions the selector announced for R.
C24_OutputAsAnnounced ==
  pc = "loading"
    => targetDimensions(req.cropParams)
         = announcedDimensions[selector.aspectRatio]

\* the calls ImagePreview has in flight (those of an unmounted ImagePreview
\* excepted)
PreviewCalls(calls) ==
  {i \in 1 .. Len(calls) : calls[i].comp = "ImagePreview" /\ ~calls[i].orphan}

\* C25: latest request wins.  When a conversion started by ImagePreview
\* completes and leaves none of its conversions in flight, the result it
\* stores is the one computed for the settings selected now, not one for an
\* earlier selection that finished later.
C25_LatestRequestWins ==
  [][(/\ app'.processedResult # app.processedResult
      /\ ~IsNull(app'.processedResult)
      /\ Val(app'.processedResult).call.comp = "ImagePreview"
      /\ ~Val(app'.processedResult).call.orphan
      /\ PreviewCalls(inflight') = {})
       => /\ Val(app'.processedResult).call.targetQuality
               = targetQualityOf(preview'.selectedQuality,
                                 preview'.customQuality)
          /\ Val(app'.processedResult).call.outputFormat
               = preview'.selectedFormat]_vars

\* the conversions a component has started and that have not completed
InFlightOf(comp) ==
  {i \in 1 .. Len(inflight) :
     /\ inflight[i].call = "processImage"
     /\ inflight[i].comp = comp
     /\ ~inflight[i].orphan}

\* C26: the isProcessing flag of App and that of ImagePreview are true exactly
\* when a conversion started by that component is still in flight.
C26_ProcessingFlagMatchesInFlight ==
  /\ app.isProcessing = (InFlightOf("App") # {})
  /\ preview.isProcessing = (InFlightOf("ImagePreview") # {})

\* C27: whenever the current step of App is "preview", originalInfo is
\* non-null; after a failure of getImageInfo the app is back at the upload
\* step, where a new image can be selected.
C27_PreviewHasInfo ==
  getCurrentStep = "preview" => ~IsNull(app.originalInfo)

\* C28: reprocessing keeps the geometry.  Every conversion ImagePreview has
\* started uses the crop parameters confirmed for the file, and the result it
\* stores has the dimensions and the aspect-ratio tag of that crop.
C28_ReprocessKeepsGeometry ==
  /\ \A i \in PreviewCalls(inflight) :
       inflight[i].cropParams = app.cropParams
  /\ (/\ PreviewShown
      /\ ~IsNull(app.processedResult)
      /\ Val(app.processedResult).call.comp = "ImagePreview"
      /\ ~Val(app.processedResult).call.orphan)
       => /\ Val(app.processedResult).dimensions
               = targetDimensions(app.cropParams)
          /\ Val(app.processedResult).aspectRatio
               = resultAspectRatio(app.cropParams)

\* C29: the extension of every downloaded file is that of the format of the
\* downloaded blob: .png for PNG, .jpg for JPEG, .webp for WEBP.
C29_ExtensionMatchesFormat ==
  ~IsNull(download)
    => LET d == Val(download)
       IN  d.filename[Len(d.filename)]
             = CASE d.format = "PNG"  -> ".png"
                 [] d.format = "WEBP" -> ".webp"
                 [] OTHER             -> ".jpg"

(***************************************************************************)
(* The auto search with a deterministic encoder whose output size does not *)
(* decrease with the quality.  The encoder is fixed at the start: it is a  *)
(* function from the qualities the search may ask for to blob sizes.       *)
(***************************************************************************)
\* one opaque image in every size class; the search does not look at the
\* pixels
MonoFiles ==
  {f \in Files : f.img.pattern = "opaque" /\ f.img.width = 2}

\* the qualities findOptimalCompression may encode at, in ascending order
searchQualities(file) ==
  LET levels == qualityLevels(file)
  IN  [k \in 1 .. Len(levels) + 1 |->
         IF k <= Len(levels) THEN levels[Len(levels) + 1 - k]
         ELSE highQuality]

\* the non-decreasing sequences of length n over the sizes S
RECURSIVE NonDecreasing(_, _)
NonDecreasing(n, S) ==
  IF n = 0 THEN {<<>>}
  ELSE UNION {{Append(s, v) : v \in {x \in S : n = 1 \/ s[n - 1] <= x}} :
                s \in NonDecreasing(n - 1, S)}

\* compressImage as a function of the quality: q1 < q2 implies
\* size(q1) <= size(q2)
MonotoneEncoders(file) ==
  LET qs == searchQualities(file)
  IN  {[q \in {qs[k] : k \in 1 .. Len(qs)} |->
          s[CHOOSE k \in 1 .. Len(qs) : qs[k] = q]] :
         s \in NonDecreasing(Len(qs), BlobSizes(file))}

\* processImage(file, null) has been called for an opaque image
InitMono ==
  /\ \E file \in MonoFiles :
       /\ req = [NoReq EXCEPT !.caller = "handleFileSelect", !.file = file]
       /\ \E f \in MonotoneEncoders(file) : encoder = Some(f)
  /\ pc = "loading"
  /\ canvas = NoCanvas
  /\ encodes = <<>>
  /\ search = NoSearch
  /\ result = Null
  /\ ladderMin = Null
  /\ log = <<>>
  /\ selector = InitialSelector
  /\ app = InitialApp
  /\ preview = InitialPreview
  /\ inflight = <<>>
  /\ started = 0
  /\ download = Null

NextMono ==
  \/ ImgOnLoad
  \/ LadderBlob
  \/ FallbackBlob
  \/ HighQualityBlob

SpecMono == InitMono /\ [][NextMono]_vars

\* C30: with a deterministic encoder whose size does not decrease with the
\* quality the auto search never returns quality 98: the quality-98 blob,
\* whenever it is encoded, is strictly larger than the file and is rejected,
\* and one search encodes at most 10 times.
C30_MonotoneNever98 ==
  /\ pc = "resolved" => Val(result).quality # highQuality
  /\ ~IsNull(search.highQualityBlob)
       => /\ Val(search.highQualityBlob).size > req.file.size
          /\ Val(search.bestBlob) # Val(search.highQualityBlob)
  /\ Len(encodes) <= 10

\* the quality-98 encode was made, as the tenth one, and the search returned
\* the fallback blob
C30_Witness ==
  /\ pc = "resolved"
  /\ ~IsNull(search.highQualityBlob)
  /\ Len(encodes) = 10
  /\ Val(result).quality = maxQuality

====
